---------------------------- MODULE Spec2Model ----------------------------
(***************************************************************************)
(* tg-bookmarks: the synchronisation engine (src/telegram_client.py), the  *)
(* local store (src/db.py) and the sync trigger (src/main.py, post_sync).  *)
(*                                                                         *)
(* A bookmark row is modelled by its key, its topic and its media:         *)
(* [id, topic_id, media_path, content_type].  message_id always equals id; *)
(* text and date are payload that no operation of the store or of the      *)
(* engines reads.  Python's None is 0 for a topic id or a reply reference  *)
(* (both are tested by truthiness in the source, so None and 0 take the    *)
(* same branch), NoPts for the cursor and NoPath for media_path.           *)
(***************************************************************************)
EXTENDS Integers, Sequences, FiniteSets, TLC

\* ------------------------------------------------------------------ bounds
\* Largest pts the remote answers with (pts ranges over 0..MaxPts).
MaxPts == 2
\* Largest number of new_messages, and of other_updates, in one difference page.
MaxPage == 1
\* The messages one capped iteration yields at most: stands for the 500 of
\* iter_messages(..., limit=None if full_sync else 500).
MaxEnumerated == 1
\* Number of request threads that can be inside post_sync at once.
NThreads == 2

Threads == 1..NThreads
PtsValues == 0..MaxPts
\* get_channel_pts() returning None
NoPts == -1

\* ------------------------------------------------------- the remote channel
\* A message as the remote delivers it: id, the forum topic (thread) it lives
\* in, reply_to.reply_to_msg_id (0: no reply header), whether it is a
\* MessageService, and its media ("photo": message.photo, "video":
\* message.video, "text": neither).
Msg(i, t, r, s) ==
    [id |-> i, thread |-> t, reply_to |-> r, service |-> s, media |-> "text"]
Photo(m) == [m EXCEPT !.media = "photo"]
Video(m) == [m EXCEPT !.media = "video"]

\* The messages the remote channel can hold: topic 1 is "General", whose
\* messages carry no reply header; topic 2 is a forum topic whose top-level
\* messages reply to the topic id and whose replies reply to another message.
Universe ==
    { Msg(1, 1, 0, FALSE),   \* message id 1, in General
      Msg(3, 2, 2, FALSE),   \* top-level message of topic 2
      Msg(4, 2, 3, FALSE),   \* message of topic 2 replying to message 3
      Msg(5, 1, 0, FALSE),   \* message in General
      Msg(6, 2, 2, TRUE) }   \* service message in topic 2

MsgIds == { m.id : m \in Universe }

\* The messages with media the remote channel can hold, both top-level
\* messages of topic 2.
MediaUniverse == { Photo(Msg(7, 2, 2, FALSE)), Video(Msg(8, 2, 2, FALSE)) }

Topic(i, t) == [id |-> i, title |-> t]

\* The topics of the channel whose messages and history are modelled.
RemoteTopics == << Topic(1, "General"), Topic(2, "Links") >>

\* The answers GetForumTopicsRequest can give (result.topics).
TopicLists ==
    { << >>,
      << Topic(1, "General"), Topic(2, "Links") >>,
      << Topic(2, "Reads") >> }

Range(s) == { s[i] : i \in DOMAIN s }

\* --------------------------------------------------------------- src/db.py
\* bookmarks.upsert_all(bookmarks_list, pk='id'): each item replaces the row
\* with its id, in list order.
RECURSIVE upsert_all(_, _)
upsert_all(table, items) ==
    IF items = << >> THEN table
    ELSE upsert_all({ b \in table : b.id # Head(items).id } \cup { Head(items) },
                    Tail(items))

\* The batch inserted as new rows, without looking for rows with the same id.
insert_bookmarks_batch(table, bookmarks_list) ==
    table \cup Range(bookmarks_list)

upsert_bookmarks_batch(table, bookmarks_list) ==
    IF bookmarks_list = << >> THEN table
    ELSE upsert_all(table, bookmarks_list)

\* delete_bookmarks(topic_id, message_ids) of db.py with topic 1: the DELETE
\* that is restricted to one topic.
delete_bookmarks_topic_1(table, message_ids) ==
    IF message_ids = << >> THEN table
    ELSE { b \in table : ~(b.topic_id = 1 /\ b.id \in Range(message_ids)) }

delete_bookmarks_by_ids(table, message_ids) ==
    IF message_ids = << >> THEN table
    ELSE { b \in table : b.id \notin Range(message_ids) }

\* prune_bookmarks with "topic_id = ?" missing from the NOT IN statement.
prune_bookmarks_all_topics(table, topic_id, active_ids) ==
    IF active_ids = << >>
    THEN { b \in table : ~(b.topic_id = topic_id) }
    ELSE { b \in table : b.id \in Range(active_ids) }

prune_bookmarks(table, topic_id, active_ids) ==
    IF active_ids = << >>
    THEN { b \in table : ~(b.topic_id = topic_id) }
    ELSE { b \in table : ~(b.topic_id = topic_id /\ b.id \notin Range(active_ids)) }

\* topics.insert(...) in the place of the upsert: a row is added whether or
\* not the id is there already.
insert_topic(table, topic) == table \cup { topic }

\* topics.upsert({'id': topic_id, 'title': title, ...})
upsert_topic(table, topic) ==
    { t \in table : t.id # topic.id } \cup { topic }

\* channel_state.get(1): the row's pts, None when there is no row; the bare
\* except turns a failing read into None as well (fault = TRUE).
get_channel_pts(state, fault) ==
    IF fault \/ state = {} THEN NoPts
    ELSE (CHOOSE row \in state : row.id = 1).pts

\* channel_state.upsert({'id': 1, 'pts': pts, ...})
set_channel_pts(state, pts) ==
    { row \in state : row.id # 1 } \cup { [id |-> 1, pts |-> pts] }


\* ------------------------------------------------------- the media cache
\* f"media/{id}{suffix}"
Path(i, suffix) == [id |-> i, suffix |-> suffix]
\* media_path = None
NoPath == Path(0, "")
Suffixes == { ".jpg", "_thumb.jpg", ".mp4" }
Paths == { Path(m.id, x) : m \in MediaUniverse, x \in Suffixes }

\* A media directory maps each path to "absent", "empty" (a file of size
\* 0) or "data" (a file of size > 0).
exists(fs, path) == fs[path] # "absent"
nonempty(fs, path) == exists(fs, path) /\ fs[path] = "data"

\* What client.download_media(message, path) can do: "ok" writes the file
\* and returns its path, "none" returns None and writes nothing, "raise"
\* raises and leaves no file, "raise_empty" raises after the file was
\* opened for writing and leaves it with size 0.
Outcomes == { "ok", "none", "raise", "raise_empty" }

download_media(fs, path, outcome) ==
    IF outcome = "ok" THEN [fs EXCEPT ![path] = "data"]
    ELSE IF outcome = "raise_empty" THEN [fs EXCEPT ![path] = "empty"]
    ELSE fs

\* ------------------------------------------------- src/telegram_client.py
\* process_message_object(message, topic_id): << >> for None (a service
\* message), otherwise the bookmark dict in a one-element sequence.  Both
\* engines call it without `download`, which is False then.
process_message_object(message, topic_id, fs) ==
    IF message.service THEN << >>
    ELSE << [id |-> message.id,
             topic_id |-> IF message.reply_to # 0 THEN message.reply_to
                          ELSE topic_id,
             media_path |->
                 IF message.media = "photo"
                 THEN IF nonempty(fs, Path(message.id, ".jpg"))
                      THEN Path(message.id, ".jpg") ELSE NoPath
                 ELSE IF message.media = "video"
                 THEN IF nonempty(fs, Path(message.id, "_thumb.jpg"))
                      THEN Path(message.id, "_thumb.jpg")
                      ELSE IF nonempty(fs, Path(message.id, ".mp4"))
                      THEN Path(message.id, ".mp4") ELSE NoPath
                 ELSE NoPath,
             content_type |-> message.media] >>

\* The file download_bookmark_media looks for and downloads to.
media_target(bookmark) ==
    IF bookmark.content_type = "photo" THEN Path(bookmark.id, ".jpg")
    ELSE Path(bookmark.id, "_thumb.jpg")

\* download_bookmark_media calls client.download_media for this bookmark.
download_attempted(fs, bookmark, download) ==
    /\ download
    /\ bookmark.content_type \in { "photo", "video" }
    /\ ~exists(fs, media_target(bookmark))

\* download_bookmark_media(client, bookmark, download): the bookmark it
\* returns and the media directory it leaves.  An exception of
\* download_media is caught and printed.
download_bookmark_media(fs, bookmark, download, outcome) ==
    IF ~download_attempted(fs, bookmark, download)
    THEN [bookmark |-> bookmark, files |-> fs]
    ELSE [bookmark |-> IF outcome = "ok"
                       THEN [bookmark EXCEPT !.media_path = media_target(bookmark)]
                       ELSE bookmark,
          files |-> download_media(fs, media_target(bookmark), outcome)]

\* bm = await process_message_object(...); if bm: bm = await
\* download_bookmark_media(...): the bookmarks to append (none or one) and
\* the media directory afterwards.
resolve(fs, message, topic_id, download, outcome) ==
    LET bm == process_message_object(message, topic_id, fs)
    IN IF bm = << >> THEN [bms |-> << >>, files |-> fs]
       ELSE LET r == download_bookmark_media(fs, bm[1], download, outcome)
            IN [bms |-> << r.bookmark >>, files |-> r.files]

\* The topic a difference page's new message is placed in (0: skip it).
new_message_topic(message) ==
    IF message.reply_to # 0 THEN message.reply_to
    ELSE IF message.id = 1 THEN 1 ELSE 0

\* The topic an UpdateEditMessage's message is placed in (0: skip it).
edit_message_topic(msg) ==
    IF msg.reply_to # 0 THEN msg.reply_to ELSE 0

\* for message in result.new_messages: ... new_bookmarks.append(bm): the
\* bookmarks appended and the media directory afterwards.  Every download
\* of one page has the same outcome.
RECURSIVE process_new_messages(_, _, _, _)
process_new_messages(new_messages, fs, download, outcome) ==
    IF new_messages = << >> THEN [bms |-> << >>, files |-> fs]
    ELSE LET message == Head(new_messages)
             topic_id == new_message_topic(message)
             r == IF topic_id = 0 THEN [bms |-> << >>, files |-> fs]
                  ELSE resolve(fs, message, topic_id, download, outcome)
             rest == process_new_messages(Tail(new_messages), r.files, download, outcome)
         IN [bms |-> r.bms \o rest.bms, files |-> rest.files]

\* for update in result.other_updates: the bookmarks appended to
\* new_bookmarks and the media directory afterwards
RECURSIVE process_edits(_, _, _, _)
process_edits(other_updates, fs, download, outcome) ==
    IF other_updates = << >> THEN [bms |-> << >>, files |-> fs]
    ELSE LET update == Head(other_updates)
             topic_id == edit_message_topic(update.message)
             r == IF update.kind = "UpdateEditMessage" /\ topic_id # 0
                  THEN resolve(fs, update.message, topic_id, download, outcome)
                  ELSE [bms |-> << >>, files |-> fs]
             rest == process_edits(Tail(other_updates), r.files, download, outcome)
         IN [bms |-> r.bms \o rest.bms, files |-> rest.files]

\* for update in result.other_updates: deleted_ids.extend(update.messages)
RECURSIVE process_deletes(_)
process_deletes(other_updates) ==
    IF other_updates = << >> THEN << >>
    ELSE (IF Head(other_updates).kind = "UpdateDeleteChannelMessages"
          THEN Head(other_updates).messages ELSE << >>)
         \o process_deletes(Tail(other_updates))

\* ------------------------------------------------- answers of the remote
SeqsUpTo(S, n) == UNION { [1..k -> S] : k \in 0..n }

NoMsg == Msg(0, 0, 0, TRUE)
Update(k, m, ids) == [kind |-> k, message |-> m, messages |-> ids]
Updates ==
    { Update("UpdateNewChannelMessage", m, << >>) : m \in Universe }
    \cup { Update("UpdateEditMessage", m, << >>) : m \in Universe }
    \cup { Update("UpdateDeleteChannelMessages", NoMsg, << i >>) : i \in MsgIds }

Response(k, n, o, q, f) ==
    [kind |-> k, new_messages |-> n, other_updates |-> o, pts |-> q, final |-> f]

\* The answer ChannelDifferenceEmpty that carries pts q.
Empty(q) == Response("ChannelDifferenceEmpty", << >>, << >>, q, TRUE)

\* What GetChannelDifferenceRequest can answer: an exception, Empty, TooLong
\* or a page.
DiffResponses ==
    { Response("error", << >>, << >>, 0, TRUE),
      Response("ChannelDifferenceTooLong", << >>, << >>, 0, TRUE) }
    \cup { Response("ChannelDifferenceEmpty", << >>, << >>, q, TRUE) : q \in PtsValues }
    \cup { Response("ChannelDifference", n, o, q, f) :
             n \in SeqsUpTo(Universe, MaxPage), o \in SeqsUpTo(Updates, MaxPage),
             q \in PtsValues, f \in BOOLEAN }

\* The messages of `thread` iter_messages(chat, reply_to=thread) yields from a
\* channel holding `content`: newest first.
RECURSIVE newest_first(_)
newest_first(S) ==
    IF S = {} THEN << >>
    ELSE LET m == CHOOSE x \in S : \A y \in S : y.id <= x.id
         IN << m >> \o newest_first(S \ { m })

\* limit=None
NoLimit == -1

iter_messages(content, thread, limit) ==
    LET all == newest_first({ m \in content : m.thread = thread })
    IN IF limit = NoLimit \/ Len(all) <= limit THEN all ELSE SubSeq(all, 1, limit)

\* The channel as the remote holds it: the messages it has now, its pts, the
\* changes it went through (the change at log[i] took it to pts 1 + i) and
\* the messages it had at pts 1.
NoRemote == [content |-> {}, pts |-> 1, log |-> << >>, base |-> {}]

\* ------------------------------------------------------------------ state
VARIABLES
    topics,            \* db.t.topics: rows [id, title]
    bookmarks,         \* db.t.bookmarks: rows [id, topic_id]
    channel_state,     \* db.t.channel_state: rows [id, pts]
    sync_in_progress,  \* main.py: _sync_in_progress
    pc,                \* per thread: where it is in post_sync / run_sync
    loc,               \* per thread: the locals of run_sync and of the engines
    status,            \* per thread: what the invocation answered
    obs,               \* per thread: what the current run did so far (history)
    op,                \* the last store operation applied directly (SpecStore)
    files,             \* the media directory: Paths -> "absent", "empty", "data"
    remote             \* the channel: its messages, its pts and its history

vars == << topics, bookmarks, channel_state, sync_in_progress, pc, loc, status, obs, op, files,
           remote >>
store == << topics, bookmarks, channel_state >>

InitLoc ==
    [ via |-> "none", full_sync |-> FALSE, should_disconnect |-> FALSE,
      topics |-> << >>, k |-> 0, diff_success |-> FALSE, pts |-> NoPts,
      new_bookmarks |-> << >>, deleted_ids |-> << >>, result_pts |-> 0,
      final |-> FALSE, messages |-> << >>, found_ids |-> << >>,
      bookmarks_buffer |-> << >>, ret |-> "none", download |-> FALSE ]

InitObs ==
    [ had_cursor |-> FALSE, requested |-> FALSE, full_pass |-> FALSE,
      full_started |-> << >>, full_done |-> << >>, iter_failed |-> 0,
      lost |-> << >>, pre |-> {}, seen |-> {}, pos |-> NoPts, rebased |-> FALSE,
      fetches |-> << >>, fault |-> "none", fault_pts |-> NoPts, expect |-> {},
      applied |-> FALSE, too_long |-> FALSE ]

NoOp == [name |-> "none", pre |-> {}, topic_id |-> 0, ids |-> << >>, items |-> << >>]

Init ==
    /\ topics = {}
    /\ bookmarks = {}
    /\ channel_state = {}
    /\ sync_in_progress = FALSE
    /\ pc = [p \in Threads |-> "idle"]
    /\ loc = [p \in Threads |-> InitLoc]
    /\ status = [p \in Threads |-> "none"]
    /\ obs = [p \in Threads |-> InitObs]
    /\ op = NoOp
    /\ files = [path \in Paths |-> "absent"]
    /\ remote = NoRemote

Goto(p, l) == pc' = [pc EXCEPT ![p] = l]

\* ------------------------------------------------- src/main.py: post_sync
\* if _sync_in_progress: return Span("Sync already in progress...")
PostSyncCheck(p) ==
    /\ pc[p] = "idle"
    /\ IF sync_in_progress
       THEN /\ Goto(p, "returned")
            /\ status' = [status EXCEPT ![p] = "already"]
       ELSE /\ Goto(p, "ps_set")
            /\ UNCHANGED status
    /\ UNCHANGED << store, sync_in_progress, loc, obs, op, files, remote >>

\* _sync_in_progress = True; ...; loop.run_until_complete(run_sync()):
\* run_sync's defaults are download=True, full_sync=False, client=None
PostSyncSet(p) ==
    /\ pc[p] = "ps_set"
    /\ sync_in_progress' = TRUE
    /\ Goto(p, "rs_connect")
    /\ loc' = [loc EXCEPT ![p] = [InitLoc EXCEPT !.via = "web", !.full_sync = FALSE,
                                                 !.should_disconnect = TRUE,
                                                 !.download = TRUE]]
    /\ obs' = [obs EXCEPT ![p] = [InitObs EXCEPT !.had_cursor = (channel_state # {})]]
    /\ UNCHANGED << store, status, op, files, remote >>

\* except Exception: _sync_in_progress = False; return "Sync failed. Check terminal."
PostSyncExcept(p) ==
    /\ pc[p] = "ps_except"
    /\ sync_in_progress' = FALSE
    /\ status' = [status EXCEPT ![p] = "failed"]
    /\ Goto(p, "ps_finally")
    /\ UNCHANGED << store, loc, obs, op, files, remote >>

\* post_sync without its finally clause: the flag stays set on a normal return.
PostSyncNoFinally(p) ==
    /\ pc[p] = "ps_finally"
    /\ status' = [status EXCEPT ![p] =
                    IF @ = "failed" THEN "failed"
                    ELSE IF loc[p].ret = "True" THEN "complete" ELSE "failed"]
    /\ Goto(p, "returned")
    /\ UNCHANGED << store, sync_in_progress, loc, obs, op, files, remote >>

\* finally: _sync_in_progress = False; then the return statement that is pending
PostSyncFinally(p) ==
    /\ pc[p] = "ps_finally"
    /\ sync_in_progress' = FALSE
    /\ status' = [status EXCEPT ![p] =
                    IF @ = "failed" THEN "failed"
                    ELSE IF loc[p].ret = "True" THEN "complete" ELSE "failed"]
    /\ Goto(p, "returned")
    /\ UNCHANGED << store, loc, obs, op, files, remote >>

\* The response is delivered; the thread is free for the next request.
Respond(p) ==
    /\ pc[p] = "returned"
    /\ Goto(p, "idle")
    /\ loc' = [loc EXCEPT ![p] = InitLoc]
    /\ obs' = [obs EXCEPT ![p] = InitObs]
    /\ status' = [status EXCEPT ![p] = "none"]
    /\ UNCHANGED << store, sync_in_progress, op, files, remote >>

\* telegram_client.py __main__: run_sync(download=args.download,
\* full_sync=args.full, client=client), started from the command line while
\* no request is being served.
CliMain(p, full, download) ==
    /\ \A q \in Threads : pc[q] = "idle"
    /\ Goto(p, "rs_connect")
    /\ loc' = [loc EXCEPT ![p] = [InitLoc EXCEPT !.via = "cli", !.full_sync = full,
                                                 !.should_disconnect = FALSE,
                                                 !.download = download]]
    /\ obs' = [obs EXCEPT ![p] = [InitObs EXCEPT !.had_cursor = (channel_state # {})]]
    /\ UNCHANGED << store, sync_in_progress, status, op, files, remote >>

\* ------------------------------------- src/telegram_client.py: run_sync
\* The locals of run_sync that outlive the engines' frames.
Unwind(l, ret) ==
    [InitLoc EXCEPT !.via = l.via, !.should_disconnect = l.should_disconnect,
                    !.topics = l.topics, !.ret = ret]

\* An exception raised inside run_sync's try block: except -> return False.
Caught(p) ==
    /\ Goto(p, "rs_finally")
    /\ loc' = [loc EXCEPT ![p] = Unwind(@, "False")]

ConnectAnswers ==
    { [kind |-> "error", topics |-> << >>], [kind |-> "unauthorized", topics |-> << >>] }
    \cup { [kind |-> "topics", topics |-> l] : l \in TopicLists }

\* TelegramClient(SESSION_NAME, int(API_ID), API_HASH) is built outside the
\* try block when no client is passed: its exception leaves run_sync.
RunSyncRaise(p) ==
    /\ pc[p] = "rs_connect"
    /\ loc[p].should_disconnect
    /\ Goto(p, "ps_except")
    /\ UNCHANGED << store, sync_in_progress, loc, status, obs, op, files, remote >>

\* connect, is_user_authorized, get_entity, GetForumTopicsRequest
RunSyncConnect(p, answer) ==
    /\ pc[p] = "rs_connect"
    /\ IF answer.kind = "topics"
       THEN /\ Goto(p, "rs_topics")
            /\ loc' = [loc EXCEPT ![p].topics = answer.topics, ![p].k = 1]
       ELSE Caught(p)
    /\ UNCHANGED << store, sync_in_progress, status, obs, op, files, remote >>

\* for topic in result.topics: upsert_topic(topic.id, topic.title)
RunSyncUpsertTopic(p, fault) ==
    /\ pc[p] = "rs_topics"
    /\ loc[p].k <= Len(loc[p].topics)
    /\ IF fault
       THEN Caught(p) /\ UNCHANGED topics
       ELSE /\ topics' = upsert_topic(topics, loc[p].topics[loc[p].k])
            /\ loc' = [loc EXCEPT ![p].k = @ + 1]
            /\ UNCHANGED pc
    /\ UNCHANGED << bookmarks, channel_state, sync_in_progress, status, obs, op, files, remote >>

\* if not full_sync: diff_success = await sync_from_difference(...)
RunSyncTopicsDone(p) ==
    /\ pc[p] = "rs_topics"
    /\ loc[p].k > Len(loc[p].topics)
    /\ Goto(p, IF loc[p].full_sync THEN "rs_branch" ELSE "diff_pts")
    /\ UNCHANGED << store, sync_in_progress, loc, status, obs, op, files, remote >>

\* sync_from_difference returns: its result is run_sync's diff_success
DiffReturn(p, success) ==
    /\ Goto(p, "rs_branch")
    /\ loc' = [loc EXCEPT ![p].diff_success = success, ![p].pts = NoPts,
                          ![p].new_bookmarks = << >>, ![p].deleted_ids = << >>,
                          ![p].result_pts = 0, ![p].final = FALSE]

\* sync_from_difference reading a missing cursor as pts 0 and asking anyway.
SyncFromDifferencePtsUnchecked(p, fault) ==
    /\ pc[p] = "diff_pts"
    /\ LET pts == get_channel_pts(channel_state, fault)
       IN /\ Goto(p, "diff_req")
          /\ loc' = [loc EXCEPT ![p].pts = IF pts = NoPts THEN 0 ELSE pts]
          /\ obs' = [obs EXCEPT ![p].requested = TRUE]
    /\ UNCHANGED << store, sync_in_progress, status, op, files, remote >>

\* pts = get_channel_pts(); if not pts: return False; otherwise the loop is
\* entered and GetChannelDifferenceRequest(pts=pts) is sent.
SyncFromDifferencePts(p, fault) ==
    /\ pc[p] = "diff_pts"
    /\ LET pts == get_channel_pts(channel_state, fault)
       IN IF pts = NoPts \/ pts = 0
          THEN DiffReturn(p, FALSE) /\ UNCHANGED obs
          ELSE /\ Goto(p, "diff_req")
               /\ loc' = [loc EXCEPT ![p].pts = pts]
               /\ obs' = [obs EXCEPT ![p].requested = TRUE]
    /\ UNCHANGED << store, sync_in_progress, status, op, files, remote >>


\* The except clause of the request going round the loop again ("continue")
\* instead of returning False.
SyncFromDifferenceErrorRetried(p, result) ==
    /\ pc[p] = "diff_req"
    /\ result.kind = "error"
    /\ obs' = [obs EXCEPT ![p].fault = "transport"]
    /\ UNCHANGED << store, sync_in_progress, pc, loc, status, op, files, remote >>

\* GetChannelDifferenceRequest(pts=pts) raises: return False
SyncFromDifferenceError(p, result) ==
    /\ pc[p] = "diff_req"
    /\ result.kind = "error"
    /\ DiffReturn(p, FALSE)
    /\ obs' = [obs EXCEPT ![p].fault = "transport"]
    /\ UNCHANGED << store, sync_in_progress, status, op, files, remote >>

\* ChannelDifferenceEmpty storing result.pts whatever it is, without the
\* comparison with the pts of the request.
SyncFromDifferenceEmptyAlwaysSet(p, result, fault) ==
    /\ pc[p] = "diff_req"
    /\ result.kind = "ChannelDifferenceEmpty"
    /\ IF fault
       THEN Caught(p) /\ UNCHANGED channel_state
       ELSE /\ channel_state' = set_channel_pts(channel_state, result.pts)
            /\ DiffReturn(p, TRUE)
    /\ UNCHANGED << topics, bookmarks, sync_in_progress, status, obs, op, files, remote >>

\* ChannelDifferenceEmpty: if result.pts > pts: set_channel_pts(result.pts); return True
SyncFromDifferenceEmpty(p, result, fault) ==
    /\ pc[p] = "diff_req"
    /\ result.kind = "ChannelDifferenceEmpty"
    /\ fault => result.pts > loc[p].pts
    /\ IF fault
       THEN Caught(p) /\ UNCHANGED channel_state
       ELSE /\ channel_state' = IF result.pts > loc[p].pts
                                THEN set_channel_pts(channel_state, result.pts)
                                ELSE channel_state
            /\ DiffReturn(p, TRUE)
    /\ UNCHANGED << topics, bookmarks, sync_in_progress, status, obs, op, files, remote >>

\* ChannelDifferenceTooLong taken for "nothing to do": return True.
SyncFromDifferenceTooLongAsEmpty(p, result) ==
    /\ pc[p] = "diff_req"
    /\ result.kind = "ChannelDifferenceTooLong"
    /\ DiffReturn(p, TRUE)
    /\ obs' = [obs EXCEPT ![p].too_long = TRUE]
    /\ UNCHANGED << store, sync_in_progress, status, op, files, remote >>

\* ChannelDifferenceTooLong: return False
SyncFromDifferenceTooLong(p, result) ==
    /\ pc[p] = "diff_req"
    /\ result.kind = "ChannelDifferenceTooLong"
    /\ DiffReturn(p, FALSE)
    /\ obs' = [obs EXCEPT ![p].too_long = TRUE]
    /\ UNCHANGED << store, sync_in_progress, status, op, files, remote >>

\* ChannelDifference: the two loops that fill new_bookmarks and deleted_ids
SyncFromDifferencePage(p, result, outcome) ==
    /\ pc[p] = "diff_req"
    /\ result.kind = "ChannelDifference"
    /\ Goto(p, "diff_upsert")
    /\ LET new == process_new_messages(result.new_messages, files,
                                       loc[p].download, outcome)
           edited == process_edits(result.other_updates, new.files,
                                   loc[p].download, outcome)
       IN /\ loc' = [loc EXCEPT
                       ![p].new_bookmarks = new.bms \o edited.bms,
                       ![p].deleted_ids = process_deletes(result.other_updates),
                       ![p].result_pts = result.pts,
                       ![p].final = result.final]
          /\ files' = edited.files
          /\ obs' = [obs EXCEPT ![p].expect =
                        delete_bookmarks_by_ids(
                            upsert_bookmarks_batch(bookmarks, new.bms \o edited.bms),
                            process_deletes(result.other_updates))]
    /\ UNCHANGED << store, sync_in_progress, status, op, remote >>

\* if new_bookmarks: upsert_bookmarks_batch(new_bookmarks)
SyncFromDifferenceUpsert(p, fault) ==
    /\ pc[p] = "diff_upsert"
    /\ fault => loc[p].new_bookmarks # << >>
    /\ IF fault
       THEN /\ Caught(p)
            /\ obs' = [obs EXCEPT ![p].fault = "diff_upsert", ![p].fault_pts = loc[p].pts]
            /\ UNCHANGED bookmarks
       ELSE /\ bookmarks' = upsert_bookmarks_batch(bookmarks, loc[p].new_bookmarks)
            /\ Goto(p, "diff_delete")
            /\ loc' = [loc EXCEPT ![p].new_bookmarks = << >>]
            /\ UNCHANGED obs
    /\ UNCHANGED << topics, channel_state, sync_in_progress, status, op, files, remote >>

\* The page's pts persisted before its deletions are applied.
SyncFromDifferenceDeleteCursorFirst(p, fault) ==
    /\ pc[p] = "diff_delete"
    /\ fault => loc[p].deleted_ids # << >>
    /\ channel_state' = set_channel_pts(channel_state, loc[p].result_pts)
    /\ IF fault
       THEN /\ Caught(p)
            /\ obs' = [obs EXCEPT ![p].fault = "diff_delete", ![p].fault_pts = loc[p].pts]
            /\ UNCHANGED bookmarks
       ELSE /\ bookmarks' = delete_bookmarks_by_ids(bookmarks, loc[p].deleted_ids)
            /\ Goto(p, "diff_setpts")
            /\ loc' = [loc EXCEPT ![p].deleted_ids = << >>]
            /\ UNCHANGED obs
    /\ UNCHANGED << topics, sync_in_progress, status, op, files, remote >>

\* if deleted_ids: delete_bookmarks_by_ids(deleted_ids)
SyncFromDifferenceDelete(p, fault) ==
    /\ pc[p] = "diff_delete"
    /\ fault => loc[p].deleted_ids # << >>
    /\ IF fault
       THEN /\ Caught(p)
            /\ obs' = [obs EXCEPT ![p].fault = "diff_delete", ![p].fault_pts = loc[p].pts]
            /\ UNCHANGED bookmarks
       ELSE /\ bookmarks' = delete_bookmarks_by_ids(bookmarks, loc[p].deleted_ids)
            /\ Goto(p, "diff_setpts")
            /\ loc' = [loc EXCEPT ![p].deleted_ids = << >>]
            /\ UNCHANGED obs
    /\ UNCHANGED << topics, channel_state, sync_in_progress, status, op, files, remote >>

\* pts = result.pts; set_channel_pts(pts); if result.final: break ... return True
SyncFromDifferenceSetPts(p, fault) ==
    /\ pc[p] = "diff_setpts"
    /\ IF fault
       THEN Caught(p) /\ UNCHANGED << channel_state, obs >>
       ELSE /\ channel_state' = set_channel_pts(channel_state, loc[p].result_pts)
            /\ obs' = [obs EXCEPT ![p].expect = {}, ![p].applied = TRUE]
            /\ IF loc[p].final
               THEN DiffReturn(p, TRUE)
               ELSE /\ Goto(p, "diff_req")
                    /\ loc' = [loc EXCEPT ![p].pts = loc[p].result_pts,
                                          ![p].new_bookmarks = << >>,
                                          ![p].deleted_ids = << >>,
                                          ![p].result_pts = 0]
    /\ UNCHANGED << topics, bookmarks, sync_in_progress, status, op, files, remote >>

\* if diff_success: ... return True / else: the full sync pass (full_sync is
\* not read after this point and is reset, and so is the history of the
\* differential engine)
RunSyncBranch(p) ==
    /\ pc[p] = "rs_branch"
    /\ IF loc[p].diff_success
       THEN /\ Goto(p, "rs_finally")
            /\ loc' = [loc EXCEPT ![p] = Unwind(@, "True")]
            /\ obs' = [obs EXCEPT ![p].applied = FALSE]
       ELSE /\ Goto(p, "full_topic")
            /\ loc' = [loc EXCEPT ![p].k = 1, ![p].full_sync = FALSE]
            /\ obs' = [obs EXCEPT ![p].full_pass = TRUE, ![p].fault = "none",
                                  ![p].applied = FALSE]
    /\ UNCHANGED << store, sync_in_progress, status, op, files, remote >>

\* ------------------- src/telegram_client.py: sync_bookmarks_with_client
\* The topic whose full sync thread p is in.
current_topic(p) == loc[p].topics[loc[p].k].id

\* for topic in result.topics: sync_bookmarks_with_client(..., topic.id, ...):
\* found_ids = [], bookmarks_buffer = [], and iter_messages is called on a
\* channel that holds `content`, with limit=None if full_sync else 500.
\* run_sync passes full_sync=True.
FullSyncTopic(p, content, full_sync) ==
    /\ pc[p] = "full_topic"
    /\ loc[p].k <= Len(loc[p].topics)
    /\ Goto(p, "full_iter")
    /\ loc' = [loc EXCEPT ![p].messages =
                              iter_messages(content, current_topic(p),
                                            IF full_sync THEN NoLimit ELSE MaxEnumerated),
                          ![p].found_ids = << >>,
                          ![p].bookmarks_buffer = << >>]
    /\ obs' = [obs EXCEPT
                 ![p].full_started = Append(@, current_topic(p)),
                 ![p].pre = bookmarks,
                 ![p].fetches = << >>,
                 ![p].seen = { m.id : m \in { x \in content :
                                 x.thread = current_topic(p) /\ ~x.service } }]
    /\ UNCHANGED << store, sync_in_progress, status, op, files, remote >>

\* What one round of the loop did about the media of a photo or video
\* message: the message, the download flag, whether a download was attempted
\* and its outcome, the target file before and after, the media_path that
\* process_message_object had resolved from the cache and the media_path of
\* the bookmark that was appended.
Fetch(message, bm, download, outcome) ==
    LET r == download_bookmark_media(files, bm, download, outcome)
    IN [id |-> message.id, media |-> message.media, download |-> download,
        attempted |-> download_attempted(files, bm, download),
        outcome |-> outcome,
        before |-> files[media_target(bm)],
        after |-> r.files[media_target(bm)],
        cached |-> bm.media_path,
        media_path |-> r.bookmark.media_path]

\* The loop body upserting each bookmark as it is found, as upsert_bookmark
\* (db.py) would, instead of buffering it.
FullSyncIterEager(p, outcome) ==
    /\ pc[p] = "full_iter"
    /\ loc[p].messages # << >>
    /\ LET message == Head(loc[p].messages)
           r == resolve(files, message, current_topic(p), loc[p].download, outcome)
       IN /\ loc' = [loc EXCEPT
                       ![p].messages = Tail(@),
                       ![p].found_ids = IF r.bms = << >> THEN @ ELSE Append(@, message.id),
                       ![p].bookmarks_buffer = @ \o r.bms]
          /\ files' = r.files
          /\ bookmarks' = upsert_all(bookmarks, r.bms)
    /\ UNCHANGED << topics, channel_state, sync_in_progress, pc, status, obs, op, remote >>

\* The loop body with download_bookmark_media's try/except removed: an
\* exception of download_media leaves the loop and the engine.
FullSyncIterNoExcept(p, outcome) ==
    /\ pc[p] = "full_iter"
    /\ loc[p].messages # << >>
    /\ LET message == Head(loc[p].messages)
           bm == process_message_object(message, current_topic(p), files)
           r == resolve(files, message, current_topic(p), loc[p].download, outcome)
       IN /\ IF bm # << >> /\ download_attempted(files, bm[1], loc[p].download)
                /\ outcome \in { "raise", "raise_empty" }
             THEN Caught(p)
             ELSE /\ loc' = [loc EXCEPT
                               ![p].messages = Tail(@),
                               ![p].found_ids = IF r.bms = << >> THEN @
                                                ELSE Append(@, message.id),
                               ![p].bookmarks_buffer = @ \o r.bms]
                  /\ UNCHANGED pc
          /\ files' = r.files
          /\ obs' = [obs EXCEPT ![p].fetches =
                        IF bm = << >> \/ message.media = "text" THEN @
                        ELSE Append(@, Fetch(message, bm[1], loc[p].download, outcome))]
    /\ UNCHANGED << store, sync_in_progress, status, op, remote >>

\* one round of "async for message in tg_client.iter_messages(...)":
\* process_message_object, download_bookmark_media, the two appends
FullSyncIter(p, outcome) ==
    /\ pc[p] = "full_iter"
    /\ loc[p].messages # << >>
    /\ LET message == Head(loc[p].messages)
           bm == process_message_object(message, current_topic(p), files)
           r == resolve(files, message, current_topic(p), loc[p].download, outcome)
       IN /\ loc' = [loc EXCEPT
                       ![p].messages = Tail(@),
                       ![p].found_ids = IF r.bms = << >> THEN @ ELSE Append(@, message.id),
                       ![p].bookmarks_buffer = @ \o r.bms]
          /\ files' = r.files
          /\ obs' = [obs EXCEPT ![p].fetches =
                        IF bm = << >> \/ message.media = "text" THEN @
                        ELSE Append(@, Fetch(message, bm[1], loc[p].download, outcome))]
    /\ UNCHANGED << store, sync_in_progress, pc, status, op, remote >>

\* iter_messages raises (a transport error) before the iteration is over: the
\* exception leaves sync_bookmarks_with_client and the loop over the topics.
FullSyncIterFail(p) ==
    /\ pc[p] = "full_iter"
    /\ Caught(p)
    /\ obs' = [obs EXCEPT ![p].iter_failed = current_topic(p),
                          ![p].lost = loc[p].bookmarks_buffer]
    /\ UNCHANGED << store, sync_in_progress, status, op, files, remote >>

\* the iteration is over: if bookmarks_buffer: upsert_bookmarks_batch(bookmarks_buffer)
FullSyncUpsert(p, fault) ==
    /\ pc[p] = "full_iter"
    /\ loc[p].messages = << >>
    /\ fault => loc[p].bookmarks_buffer # << >>
    /\ IF fault
       THEN /\ Caught(p)
            /\ obs' = [obs EXCEPT ![p].fault = "full_upsert"]
            /\ UNCHANGED bookmarks
       ELSE /\ bookmarks' = upsert_bookmarks_batch(bookmarks, loc[p].bookmarks_buffer)
            /\ Goto(p, "full_prune")
            /\ UNCHANGED << loc, obs >>
    /\ UNCHANGED << topics, channel_state, sync_in_progress, status, op, files, remote >>

\* prune_bookmarks wrapped in a try/except that prints the error and goes on
\* with the next topic.
FullSyncPruneSwallowed(p, fault) ==
    /\ pc[p] = "full_prune"
    /\ bookmarks' = IF fault THEN bookmarks
                    ELSE prune_bookmarks(bookmarks, current_topic(p), loc[p].found_ids)
    /\ Goto(p, "full_topic")
    /\ loc' = [loc EXCEPT ![p].k = @ + 1, ![p].found_ids = << >>,
                          ![p].bookmarks_buffer = << >>]
    /\ obs' = [obs EXCEPT ![p].full_done = Append(@, current_topic(p)),
                          ![p].fetches = << >>,
                          ![p].fault = IF fault THEN "full_prune" ELSE @]
    /\ UNCHANGED << topics, channel_state, sync_in_progress, status, op, files, remote >>

\* prune_bookmarks(topic_id, found_ids), and on to the next topic
\* (obs.pre and obs.seen describe the topic just synced until the next starts)
FullSyncPrune(p, fault) ==
    /\ pc[p] = "full_prune"
    /\ IF fault
       THEN /\ Caught(p)
            /\ obs' = [obs EXCEPT ![p].fault = "full_prune"]
            /\ UNCHANGED bookmarks
       ELSE /\ bookmarks' = prune_bookmarks(bookmarks, current_topic(p), loc[p].found_ids)
            /\ Goto(p, "full_topic")
            /\ loc' = [loc EXCEPT ![p].k = @ + 1, ![p].found_ids = << >>,
                                  ![p].bookmarks_buffer = << >>]
            /\ obs' = [obs EXCEPT ![p].full_done = Append(@, current_topic(p)),
                                  ![p].fetches = << >>]
    /\ UNCHANGED << topics, channel_state, sync_in_progress, status, op, files, remote >>

\* After the loop: try: set_channel_pts(GetFullChannelRequest(chat).full_chat.pts)
\* except Exception: print(...); then return True.  position = NoPts: the
\* request raised; fault: set_channel_pts raised.
RunSyncRebase(p, position, fault) ==
    /\ pc[p] = "full_topic"
    /\ loc[p].k > Len(loc[p].topics)
    /\ fault => position # NoPts
    /\ channel_state' = IF position = NoPts \/ fault THEN channel_state
                        ELSE set_channel_pts(channel_state, position)
    /\ Goto(p, "rs_finally")
    /\ loc' = [loc EXCEPT ![p] = Unwind(@, "True")]
    /\ obs' = [obs EXCEPT ![p].pos = position,
                          ![p].rebased = (position # NoPts /\ ~fault),
                          ![p].pre = {}, ![p].seen = {}]
    /\ UNCHANGED << topics, bookmarks, sync_in_progress, status, op, files, remote >>

\* finally: if should_disconnect: await sync_client.disconnect(); then the
\* pending return reaches the caller, unless disconnect raised.  run_sync's
\* frame is gone: only its return value is left (and, of the history, the
\* operation that failed).
RunSyncFinally(p, raised) ==
    /\ pc[p] = "rs_finally"
    /\ raised => loc[p].should_disconnect
    /\ IF loc[p].via = "web"
       THEN /\ Goto(p, IF raised THEN "ps_except" ELSE "ps_finally")
            /\ UNCHANGED status
       ELSE /\ Goto(p, "returned")
            /\ status' = [status EXCEPT ![p] =
                            IF loc[p].ret = "True" THEN "complete" ELSE "failed"]
    /\ loc' = [loc EXCEPT ![p] = [InitLoc EXCEPT !.via = loc[p].via, !.ret = loc[p].ret]]
    /\ obs' = [obs EXCEPT ![p] = [InitObs EXCEPT !.fault = obs[p].fault]]
    /\ UNCHANGED << store, sync_in_progress, op, files, remote >>

\* ---------------------------------------------------------- specifications
post_sync(p) ==
    \/ PostSyncCheck(p)
    \/ PostSyncSet(p)
    \/ PostSyncExcept(p)
    \/ PostSyncFinally(p)
    \/ Respond(p)

sync_from_difference(p) ==
    \/ \E fault \in BOOLEAN : SyncFromDifferencePts(p, fault)
    \/ pc[p] = "diff_req" /\ \E result \in DiffResponses :
          SyncFromDifferenceError(p, result)
    \/ pc[p] = "diff_req" /\ \E result \in DiffResponses, fault \in BOOLEAN :
          SyncFromDifferenceEmpty(p, result, fault)
    \/ pc[p] = "diff_req" /\ \E result \in DiffResponses :
          SyncFromDifferenceTooLong(p, result)
    \/ pc[p] = "diff_req" /\ \E result \in DiffResponses :
          SyncFromDifferencePage(p, result, "ok")
    \/ \E fault \in BOOLEAN : SyncFromDifferenceUpsert(p, fault)
    \/ \E fault \in BOOLEAN : SyncFromDifferenceDelete(p, fault)
    \/ \E fault \in BOOLEAN : SyncFromDifferenceSetPts(p, fault)

sync_bookmarks_with_client(p) ==
    \/ pc[p] = "full_topic" /\ \E content \in SUBSET Universe :
          FullSyncTopic(p, content, TRUE)
    \/ FullSyncIter(p, "ok")
    \/ FullSyncIterFail(p)
    \/ \E fault \in BOOLEAN : FullSyncUpsert(p, fault)
    \/ \E fault \in BOOLEAN : FullSyncPrune(p, fault)

run_sync(p) ==
    \/ RunSyncRaise(p)
    \/ \E answer \in ConnectAnswers : RunSyncConnect(p, answer)
    \/ \E fault \in BOOLEAN : RunSyncUpsertTopic(p, fault)
    \/ RunSyncTopicsDone(p)
    \/ sync_from_difference(p)
    \/ RunSyncBranch(p)
    \/ sync_bookmarks_with_client(p)
    \/ \E position \in PtsValues \cup { NoPts }, fault \in BOOLEAN :
          RunSyncRebase(p, position, fault)
    \/ \E raised \in BOOLEAN : RunSyncFinally(p, raised)

\* One sync at a time: requests and command-line runs that do not overlap.
\* The channel holds text messages only (Universe), so no download happens.
Next ==
    \/ post_sync(1)
    \/ run_sync(1)
    \/ \E full \in BOOLEAN : CliMain(1, full, FALSE)

Spec == Init /\ [][Next]_vars

\* Requests served by the thread pool at the same time.  The remote answers
\* from a small set here: one topic, one message, no storage fault; requests
\* and iterations can fail.
ConcTopics == << Topic(2, "Reads") >>
ConcContent == { Msg(3, 2, 2, FALSE) }

NextConc ==
    \E p \in Threads :
        \/ post_sync(p)
        \/ RunSyncRaise(p)
        \/ RunSyncConnect(p, [kind |-> "unauthorized", topics |-> << >>])
        \/ RunSyncConnect(p, [kind |-> "topics", topics |-> ConcTopics])
        \/ RunSyncUpsertTopic(p, FALSE)
        \/ RunSyncTopicsDone(p)
        \/ SyncFromDifferencePts(p, FALSE)
        \/ SyncFromDifferenceError(p, Response("error", << >>, << >>, 0, TRUE))
        \/ SyncFromDifferenceEmpty(p, Response("ChannelDifferenceEmpty", << >>, << >>, 1, TRUE), FALSE)
        \/ RunSyncBranch(p)
        \/ FullSyncTopic(p, ConcContent, TRUE)
        \/ FullSyncIter(p, "ok")
        \/ FullSyncIterFail(p)
        \/ FullSyncUpsert(p, FALSE)
        \/ FullSyncPrune(p, FALSE)
        \/ RunSyncRebase(p, 1, FALSE)
        \/ \E raised \in BOOLEAN : RunSyncFinally(p, raised)

SpecConc == Init /\ [][NextConc]_vars

\* ------------------------------------------------ src/main.py: get_media
\* GET /media/{message_id}: serve a cached non-empty file if there is one,
\* otherwise download_media_async(message_id), which downloads the photo to
\* {id}.jpg or the video to {id}.mp4 and catches every exception.
GetMedia(message, outcome) ==
    /\ files' = IF \E x \in Suffixes : nonempty(files, Path(message.id, x))
                THEN files
                ELSE download_media(files,
                                    Path(message.id, IF message.media = "photo"
                                                     THEN ".jpg" ELSE ".mp4"),
                                    outcome)
    /\ UNCHANGED << store, sync_in_progress, pc, loc, status, obs, op, remote >>

\* Syncs of a channel that holds photo and video messages in one topic, with
\* media requests of the browsing surface in between.  No storage faults;
\* downloads, requests and iterations can fail.
MediaTopics == << Topic(2, "Links") >>

MediaResponses ==
    { Response("error", << >>, << >>, 0, TRUE),
      Response("ChannelDifferenceTooLong", << >>, << >>, 0, TRUE) }
    \cup { Response("ChannelDifference", n, o, 1, TRUE) :
             n \in SeqsUpTo(MediaUniverse, 1),
             o \in { << >> } \cup { << Update("UpdateEditMessage", m, << >>) >> :
                                      m \in MediaUniverse } }

NextMedia ==
    \/ post_sync(1)
    \/ \E full, download \in BOOLEAN : CliMain(1, full, download)
    \/ RunSyncConnect(1, [kind |-> "topics", topics |-> MediaTopics])
    \/ RunSyncUpsertTopic(1, FALSE)
    \/ RunSyncTopicsDone(1)
    \/ SyncFromDifferencePts(1, FALSE)
    \/ pc[1] = "diff_req" /\ \E result \in MediaResponses :
          \/ SyncFromDifferenceError(1, result)
          \/ SyncFromDifferenceTooLong(1, result)
          \/ \E outcome \in Outcomes : SyncFromDifferencePage(1, result, outcome)
    \/ SyncFromDifferenceUpsert(1, FALSE)
    \/ SyncFromDifferenceDelete(1, FALSE)
    \/ SyncFromDifferenceSetPts(1, FALSE)
    \/ RunSyncBranch(1)
    \/ pc[1] = "full_topic" /\ \E content \in SUBSET MediaUniverse :
          FullSyncTopic(1, content, TRUE)
    \/ \E outcome \in Outcomes : FullSyncIter(1, outcome)
    \/ FullSyncIterFail(1)
    \/ FullSyncUpsert(1, FALSE)
    \/ FullSyncPrune(1, FALSE)
    \/ RunSyncRebase(1, 1, FALSE)
    \/ \E raised \in BOOLEAN : RunSyncFinally(1, raised)
    \/ \E message \in MediaUniverse, outcome \in Outcomes : GetMedia(message, outcome)

SpecMedia == Init /\ [][NextMedia]_vars

\* The store's operations applied directly, from any table of bookmarks.
MaxIds == 2
StoreIds == { 5, 7, 9 }
StoreTopics == { 1, 2 }
StoreRows == [id : StoreIds, topic_id : StoreTopics, media_path : { NoPath },
              content_type : { "text" }]
Tables == { t \in SUBSET StoreRows : \A a, b \in t : a.id = b.id => a = b }

InitStore ==
    /\ bookmarks \in Tables
    /\ topics = {}
    /\ channel_state = {}
    /\ sync_in_progress = FALSE
    /\ pc = [p \in Threads |-> "idle"]
    /\ loc = [p \in Threads |-> InitLoc]
    /\ status = [p \in Threads |-> "none"]
    /\ obs = [p \in Threads |-> InitObs]
    /\ op = NoOp
    /\ files = [path \in Paths |-> "absent"]
    /\ remote = NoRemote

PruneBookmarks(t, active_ids) ==
    /\ bookmarks' = prune_bookmarks(bookmarks, t, active_ids)
    /\ op' = [name |-> "prune_bookmarks", pre |-> bookmarks, topic_id |-> t,
              ids |-> active_ids, items |-> << >>]
    /\ UNCHANGED << topics, channel_state, sync_in_progress, pc, loc, status, obs, files, remote >>

DeleteBookmarksByIds(message_ids) ==
    /\ bookmarks' = delete_bookmarks_by_ids(bookmarks, message_ids)
    /\ op' = [name |-> "delete_bookmarks_by_ids", pre |-> bookmarks, topic_id |-> 0,
              ids |-> message_ids, items |-> << >>]
    /\ UNCHANGED << topics, channel_state, sync_in_progress, pc, loc, status, obs, files, remote >>

UpsertBookmarksBatch(bookmarks_list) ==
    /\ bookmarks' = upsert_bookmarks_batch(bookmarks, bookmarks_list)
    /\ op' = [name |-> "upsert_bookmarks_batch", pre |-> bookmarks, topic_id |-> 0,
              ids |-> << >>, items |-> bookmarks_list]
    /\ UNCHANGED << topics, channel_state, sync_in_progress, pc, loc, status, obs, files, remote >>

NextStore ==
    \/ \E t \in StoreTopics, ids \in SeqsUpTo(StoreIds, MaxIds) : PruneBookmarks(t, ids)
    \/ \E ids \in SeqsUpTo(StoreIds, MaxIds) : DeleteBookmarksByIds(ids)
    \/ \E items \in SeqsUpTo(StoreRows, MaxIds) : UpsertBookmarksBatch(items)

SpecStore == InitStore /\ [][NextStore]_vars

\* ------------------------------------------------------ the remote channel
\* Changes the channel goes through in one behaviour.
MaxChanges == 2

Change(k, m) == [kind |-> k, message |-> m]
ChangeKinds == { "new", "edit", "delete" }

\* The channel after one change.
changed(content, change) ==
    IF change.kind = "new" THEN content \cup { change.message }
    ELSE IF change.kind = "delete" THEN content \ { change.message }
    ELSE content

\* A message is created, edited or deleted in the channel: its pts goes up
\* by one.  Message ids are not used twice.
RemoteChange(kind, m) ==
    /\ Len(remote.log) < MaxChanges
    /\ IF kind = "new"
       THEN /\ m \notin remote.base
            /\ \A i \in DOMAIN remote.log : remote.log[i].message # m
       ELSE m \in remote.content
    /\ remote' = [remote EXCEPT !.content = changed(@, Change(kind, m)),
                                !.pts = @ + 1,
                                !.log = Append(@, Change(kind, m))]
    /\ UNCHANGED << store, sync_in_progress, pc, loc, status, obs, op, files >>

\* The messages the channel held when its pts was `pts`.
RECURSIVE replay(_, _)
replay(content, log) ==
    IF log = << >> THEN content
    ELSE replay(changed(content, Head(log)), Tail(log))

content_at(r, pts) == replay(r.base, SubSeq(r.log, 1, pts - 1))

\* result.new_messages and result.other_updates for a stretch of the history
RECURSIVE new_messages_of(_)
new_messages_of(log) ==
    IF log = << >> THEN << >>
    ELSE (IF Head(log).kind = "new" THEN << Head(log).message >> ELSE << >>)
         \o new_messages_of(Tail(log))

RECURSIVE other_updates_of(_)
other_updates_of(log) ==
    IF log = << >> THEN << >>
    ELSE (IF Head(log).kind = "edit"
          THEN << Update("UpdateEditMessage", Head(log).message, << >>) >>
          ELSE IF Head(log).kind = "delete"
          THEN << Update("UpdateDeleteChannelMessages", NoMsg, << Head(log).message.id >>) >>
          ELSE << >>)
         \o other_updates_of(Tail(log))

\* What channel r answers to GetChannelDifferenceRequest(pts=pts, limit=100):
\* Empty when nothing happened since, otherwise one final page with
\* everything that happened since and the channel's pts.
difference(r, pts) ==
    IF pts >= r.pts THEN Empty(r.pts)
    ELSE LET since == SubSeq(r.log, pts, Len(r.log))
         IN Response("ChannelDifference", new_messages_of(since),
                     other_updates_of(since), r.pts, TRUE)

\* Requests served one at a time against the channel: no fault of the
\* storage or of the transport.  The differential path of a run ...
DiffRun ==
    \/ PostSyncCheck(1)
    \/ PostSyncSet(1)
    \/ PostSyncFinally(1)
    \/ Respond(1)
    \/ RunSyncConnect(1, [kind |-> "topics", topics |-> RemoteTopics])
    \/ RunSyncUpsertTopic(1, FALSE)
    \/ RunSyncTopicsDone(1)
    \/ SyncFromDifferencePts(1, FALSE)
    \/ SyncFromDifferenceEmpty(1, difference(remote, loc[1].pts), FALSE)
    \/ SyncFromDifferencePage(1, difference(remote, loc[1].pts), "ok")
    \/ SyncFromDifferenceUpsert(1, FALSE)
    \/ SyncFromDifferenceDelete(1, FALSE)
    \/ SyncFromDifferenceSetPts(1, FALSE)
    \/ RunSyncBranch(1)
    \/ RunSyncFinally(1, FALSE)

\* ... and its full-sync pass with GetFullChannelRequest at the end.
FullRun ==
    \/ FullSyncTopic(1, remote.content, TRUE)
    \/ FullSyncIter(1, "ok")
    \/ FullSyncUpsert(1, FALSE)
    \/ FullSyncPrune(1, FALSE)
    \/ RunSyncRebase(1, remote.pts, FALSE)

\* The channel changes at any moment, also in the middle of a run.  Its
\* messages are top-level messages of the two topics.
RaceUniverse == { Msg(3, 2, 2, FALSE), Msg(5, 1, 0, FALSE) }

NextRace ==
    \/ DiffRun
    \/ FullRun
    \/ \E kind \in ChangeKinds, m \in RaceUniverse : RemoteChange(kind, m)

SpecRace == Init /\ [][NextRace]_vars

\* --------------- sync_bookmarks_with_client called with its own defaults
\* sync_bookmarks_with_client(tg_client, chat, topic_id, ...) called for one
\* topic, outside run_sync.
CallSyncBookmarks(p, topic) ==
    /\ pc[p] = "idle"
    /\ Goto(p, "full_topic")
    /\ loc' = [loc EXCEPT ![p] = [InitLoc EXCEPT !.via = "direct",
                                                 !.topics = << topic >>, !.k = 1]]
    /\ obs' = [obs EXCEPT ![p] = InitObs]
    /\ UNCHANGED << store, sync_in_progress, status, op, files, remote >>

\* ... and its return after prune_bookmarks.
SyncBookmarksReturn(p) ==
    /\ pc[p] = "full_topic"
    /\ loc[p].via = "direct"
    /\ loc[p].k > Len(loc[p].topics)
    /\ Goto(p, "idle")
    /\ loc' = [loc EXCEPT ![p] = InitLoc]
    /\ obs' = [obs EXCEPT ![p] = InitObs]
    /\ UNCHANGED << store, sync_in_progress, status, op, files, remote >>

\* Full syncs of topic 2, one call after the other, with full_sync=True and
\* with full_sync=False (the default of the parameter); the channel holds
\* any of the text messages at each call.
NextCapped ==
    \/ CallSyncBookmarks(1, Topic(2, "Links"))
    \/ pc[1] = "full_topic" /\ \E content \in SUBSET Universe, full_sync \in BOOLEAN :
          FullSyncTopic(1, content, full_sync)
    \/ FullSyncIter(1, "ok")
    \/ FullSyncUpsert(1, FALSE)
    \/ FullSyncPrune(1, FALSE)
    \/ SyncBookmarksReturn(1)

SpecCapped == Init /\ [][NextCapped]_vars

\* ------------------------ a differential run against a mirror that is exact
\* The bookmarks_buffer sync_bookmarks_with_client collects from `messages`.
RECURSIVE bookmarks_of(_, _, _)
bookmarks_of(messages, topic_id, fs) ==
    IF messages = << >> THEN << >>
    ELSE process_message_object(Head(messages), topic_id, fs)
         \o bookmarks_of(Tail(messages), topic_id, fs)

\* The bookmarks table a successful sync_bookmarks_with_client(topic_id,
\* full_sync=True) leaves, without downloads.
full_sync_topic(table, content, topic_id, fs) ==
    LET bookmarks_buffer ==
            bookmarks_of(iter_messages(content, topic_id, NoLimit), topic_id, fs)
        found_ids == [i \in DOMAIN bookmarks_buffer |-> bookmarks_buffer[i].id]
    IN prune_bookmarks(upsert_bookmarks_batch(table, bookmarks_buffer),
                       topic_id, found_ids)

\* ... and run_sync's loop over the listed topics.
RECURSIVE full_sync_all(_, _, _, _)
full_sync_all(table, content, listing, fs) ==
    IF listing = << >> THEN table
    ELSE full_sync_all(full_sync_topic(table, content, Head(listing).id, fs),
                       content, Tail(listing), fs)

\* The channel holds any of the text messages at pts 1; the mirror is what
\* the full sync of every topic stores for them, and the cursor is 1.
InitEquiv ==
    /\ topics = Range(RemoteTopics)
    /\ channel_state = set_channel_pts({}, 1)
    /\ sync_in_progress = FALSE
    /\ pc = [p \in Threads |-> "idle"]
    /\ loc = [p \in Threads |-> InitLoc]
    /\ status = [p \in Threads |-> "none"]
    /\ obs = [p \in Threads |-> InitObs]
    /\ op = NoOp
    /\ files = [path \in Paths |-> "absent"]
    /\ remote \in { [content |-> b, pts |-> 1, log |-> << >>, base |-> b] :
                       b \in SUBSET Universe }
    /\ bookmarks = full_sync_all({}, remote.base, RemoteTopics, files)

\* The channel changes after pts 1, between the requests, and the first
\* request after that takes the changes by the differential path.
NextEquiv ==
    \/ DiffRun
    \/ /\ pc[1] = "idle"
       /\ get_channel_pts(channel_state, FALSE) = 1
       /\ \E kind \in ChangeKinds, m \in Universe : RemoteChange(kind, m)

SpecEquiv == InitEquiv /\ [][NextEquiv]_vars

\* ------------------------------------------------------------------ claims
\* run_sync is executing in thread p.
InRun(p) ==
    pc[p] \in { "rs_connect", "rs_topics", "diff_pts", "diff_req", "diff_upsert",
                "diff_delete", "diff_setpts", "rs_branch", "full_topic",
                "full_iter", "full_prune", "rs_finally" }

\* Thread p has set _sync_in_progress and not yet passed its finally clause.
Holds(p) == InRun(p) \/ pc[p] \in { "ps_except", "ps_finally" }

\* C1: among overlapping invocations of post_sync at most one sync run
\* (run_sync execution) is in progress at any time.
C1_AtMostOneRun ==
    Cardinality({ p \in Threads : InRun(p) }) <= 1

\* C2: whenever the run-in-progress flag is set, an invocation that set it is
\* still before its finally clause: every invocation that set the flag clears
\* it before it returns, on success, failure and exception, so once all
\* invocations have returned the flag is clear.
C2_FlagReleased ==
    sync_in_progress => \E p \in Threads : Holds(p)

\* C2's case: one invocation answered "already in progress" and another ended
\* by the exception path, and the flag is clear.
C2_Witness ==
    /\ ~sync_in_progress
    /\ \E p, q \in Threads :
          /\ pc[p] = "returned" /\ status[p] = "already"
          /\ pc[q] = "returned" /\ status[q] = "failed"

\* The topic ids of a topic list, in order.
TopicIds(l) == [i \in DOMAIN l |-> l[i].id]

\* The pts stored in channel_state, NoPts when there is none.
StoredPts == get_channel_pts(channel_state, FALSE)

\* C3: while the messages of a topic are iterated, and when the iteration
\* fails after some messages were processed, the bookmarks in the store are
\* those from before that topic's full sync: nothing of the partial batch is
\* upserted and the topic is not pruned.
C3_NoPartialFullSync ==
    \A p \in Threads :
        (pc[p] = "full_iter" \/ (pc[p] = "rs_finally" /\ obs[p].iter_failed # 0))
            => /\ bookmarks = obs[p].pre
               /\ obs[p].iter_failed \notin Range(obs[p].full_done)

\* C3's case: the iteration of a topic that has bookmarks in the store failed
\* after a bookmark that is not in the store had been accumulated.
C3_Witness ==
    \E p \in Threads :
        /\ pc[p] = "rs_finally"
        /\ obs[p].iter_failed # 0
        /\ \E b \in bookmarks : b.topic_id = obs[p].iter_failed
        /\ \E b \in Range(obs[p].lost) : b \notin bookmarks

\* C4: when the full sync of a topic failed with a transport error, the full
\* sync of every later topic of the list was still started in the same run.
C4_LaterTopicsSynced ==
    \A p \in Threads :
        (pc[p] = "rs_finally" /\ obs[p].iter_failed # 0)
            => Range(TopicIds(loc[p].topics)) \subseteq Range(obs[p].full_started)

\* C5: every write of the cursor stores a pts >= the pts stored before it.
C5_CursorMonotonic ==
    [][get_channel_pts(channel_state', FALSE) >= StoredPts]_vars

C7_RebaselinedOnSuccess ==
    \A p \in Threads :
        (pc[p] = "rs_finally" /\ obs[p].full_pass /\ loc[p].ret = "True")
            => /\ obs[p].pos # NoPts
               /\ StoredPts = obs[p].pos

\* C8: prune_bookmarks(T, A) leaves exactly the bookmarks of T whose id is in
\* A and every bookmark of the other topics.
C8_PruneCorrect ==
    op.name = "prune_bookmarks"
        => bookmarks = { b \in op.pre :
                           b.topic_id # op.topic_id \/ b.id \in Range(op.ids) }

\* C8's case: a prune with a non-empty A removed a bookmark of T, kept one of
\* T, and kept a bookmark of another topic whose id is not in A.
C8_Witness ==
    /\ op.name = "prune_bookmarks"
    /\ op.ids # << >>
    /\ \E b \in op.pre : b.topic_id = op.topic_id /\ b \notin bookmarks
    /\ \E b \in bookmarks : b.topic_id = op.topic_id
    /\ \E b \in bookmarks : b.topic_id # op.topic_id /\ b.id \notin Range(op.ids)

\* C9: when the full sync of topic T has completed, the bookmarks with
\* topic_id = T are exactly those of the content messages the remote holds
\* in T.
C9_FullSyncExact ==
    \A p \in Threads :
        (pc[p] = "full_topic" /\ obs[p].full_done # << >>)
            => LET t == obs[p].full_done[Len(obs[p].full_done)]
               IN { b.id : b \in { x \in bookmarks : x.topic_id = t } } = obs[p].seen

\* C10: every bookmark's topic_id is the id of a row of the topics table.
C10_NoOrphanBookmark ==
    \A b \in bookmarks : \E t \in topics : t.id = b.topic_id

\* C11: delete_bookmarks_by_ids(D) removes every bookmark whose id is in D,
\* whatever its topic_id, and leaves every other bookmark as it was; with D
\* empty the store is unchanged.
C11_DeleteByIds ==
    op.name = "delete_bookmarks_by_ids"
        => /\ bookmarks = { b \in op.pre : b.id \notin Range(op.ids) }
           /\ op.ids = << >> => bookmarks = op.pre

\* C11's case: a delete removed bookmarks of two different topics and kept a
\* bookmark whose id is not in D.
C11_Witness ==
    /\ op.name = "delete_bookmarks_by_ids"
    /\ \E a, b \in op.pre \ bookmarks : a.topic_id # b.topic_id
    /\ bookmarks # {}

\* C12: applying upsert_bookmarks_batch a second time with the same items
\* leaves the store as the first application left it, and the store holds
\* one bookmark per id.
C12_UpsertIdempotent ==
    op.name = "upsert_bookmarks_batch"
        => /\ upsert_bookmarks_batch(bookmarks, op.items) = bookmarks
           /\ \A a, b \in bookmarks : a.id = b.id => a = b
           /\ { b.id : b \in bookmarks } =
                  { b.id : b \in op.pre } \cup { b.id : b \in Range(op.items) }
           /\ op.items = << >> => bookmarks = op.pre

\* C12's case: a batch that repeats an id with two different items was
\* applied to a store that held a bookmark with that id, and changed it.
C12_Witness ==
    /\ op.name = "upsert_bookmarks_batch"
    /\ Len(op.items) = 2
    /\ op.items[1].id = op.items[2].id /\ op.items[1] # op.items[2]
    /\ \E b \in op.pre : b.id = op.items[1].id
    /\ bookmarks # op.pre

\* C13: when a sync with downloads processes a photo message whose cache
\* file exists with size 0, the download is attempted, and afterwards either
\* the file is non-empty and is the bookmark's media_path, or media_path is
\* null and no file is left at that path.
C13_ZeroByteRetried ==
    \A p \in Threads : \A f \in Range(obs[p].fetches) :
        (f.media = "photo" /\ f.download /\ f.before = "empty")
            => /\ f.attempted
               /\ \/ f.after = "data" /\ f.media_path = Path(f.id, ".jpg")
                  \/ f.after = "absent" /\ f.media_path = NoPath

\* A round of the full sync's loop in thread p in which the download of a
\* message's media was attempted and failed.
DownloadFailed(p) ==
    /\ pc[p] = "full_iter"
    /\ Len(obs'[p].fetches) = Len(obs[p].fetches) + 1
    /\ LET f == obs'[p].fetches[Len(obs'[p].fetches)]
       IN f.attempted /\ f.outcome # "ok"

InDiff(p) == pc[p] \in { "diff_req", "diff_upsert", "diff_delete", "diff_setpts" }

\* C15: the differential engine never ends the run: whether it ends with a
\* transport error or with a storage error, control comes back to run_sync's
\* branch, and from there a differential sync that did not succeed is
\* followed by the full sync pass.
C15_DiffErrorFallsBack ==
    [][\A p \in Threads :
          /\ (InDiff(p) /\ ~InDiff(p)') => pc'[p] = "rs_branch"
          /\ (pc[p] = "rs_branch" /\ ~loc[p].diff_success /\ pc'[p] # pc[p])
                => pc'[p] = "full_topic"]_vars

\* C16: once upsert_bookmarks_batch or prune_bookmarks has raised in the
\* full-sync pass, the run is over with outcome failure: run_sync returns
\* False (or raises from its finally clause), post_sync answers "failed",
\* and the run never reports success.
C16_FullSyncStorageFatal ==
    \A p \in Threads :
        obs[p].fault \in { "full_upsert", "full_prune" }
            => /\ pc[p] \in { "rs_finally", "ps_finally", "ps_except", "returned" }
               /\ loc[p].ret = "False"
               /\ pc[p] = "returned" => status[p] = "failed"
               /\ status[p] # "complete"

\* C16's case: a request whose run failed in prune_bookmarks has answered
\* "failed" and released the flag.
C16_Witness ==
    \E p \in Threads :
        /\ obs[p].fault = "full_prune"
        /\ loc[p].via = "web"
        /\ pc[p] = "returned" /\ status[p] = "failed"
        /\ ~sync_in_progress

\* C17: when a cursor > 0 is stored and the read of the cursor meets a
\* storage fault, the fault is raised to the caller, which ends the run
\* with a failure; the read does not answer "no cursor".
C17_StorageFaultReported ==
    [][\A p \in Threads :
          (StoredPts > 0 /\ SyncFromDifferencePts(p, TRUE))
              => pc'[p] = "rs_finally" /\ loc'[p].ret = "False"]_vars

\* C18: while a page is applied the stored cursor is the one from before
\* the page; the upsert and the delete step leave it alone, also when they
\* fail; and the step that stores the page's pts is taken only when the
\* page's upserts and its deletions are in the store.
C18_CursorAfterPageWrites ==
    [][\A p \in Threads :
          /\ pc[p] \in { "diff_upsert", "diff_delete", "diff_setpts" }
                => StoredPts = loc[p].pts
          /\ pc[p] \in { "diff_upsert", "diff_delete" }
                => channel_state' = channel_state
          /\ (pc[p] \in { "diff_upsert", "diff_delete" } /\ pc'[p] = "rs_finally")
                => get_channel_pts(channel_state', FALSE) = obs'[p].fault_pts
          /\ pc[p] = "diff_setpts" => bookmarks = obs[p].expect
          /\ (pc[p] = "diff_setpts" /\ channel_state' # channel_state)
                => get_channel_pts(channel_state', FALSE) = loc[p].result_pts]_vars

\* C18's case: the delete of a page failed after the page's upsert had
\* changed the store; the page's pts differs from the cursor, and the cursor
\* is the one from before the page.
C18_Witness ==
    \E p \in Threads :
        /\ pc[p] = "rs_finally"
        /\ obs[p].fault = "diff_delete"
        /\ obs[p].expect # bookmarks
        /\ bookmarks # {}
        /\ StoredPts = obs[p].fault_pts

\* C19: when a cursor >= 0 is stored and is read without a fault by a run
\* that is not forced to full sync, the run sends a difference request with
\* the stored pts.
C19_StoredCursorIsUsed ==
    [][\A p \in Threads :
          (StoredPts >= 0 /\ SyncFromDifferencePts(p, FALSE))
              => /\ pc'[p] = "diff_req"
                 /\ loc'[p].pts = StoredPts
                 /\ obs'[p].requested]_vars

\* C20: a difference request that raises ends the engine with "not
\* successful" and changes nothing in the store, and the stored cursor is
\* the pts the request was sent with: the pts of the last page applied in
\* this run, or the cursor read at the start when no page was applied.
C20_TransportErrorStops ==
    [][\A p \in Threads :
          SyncFromDifferenceError(p, Response("error", << >>, << >>, 0, TRUE))
              => /\ pc'[p] = "rs_branch"
                 /\ ~loc'[p].diff_success
                 /\ store' = store
                 /\ StoredPts = loc[p].pts
                 /\ obs[p].expect = {}]_vars

\* C20's case: the request failed after a page had been applied in this
\* run, which left bookmarks and a cursor in the store.
C20_Witness ==
    \E p \in Threads :
        /\ pc[p] = "rs_branch" /\ ~loc[p].diff_success
        /\ obs[p].fault = "transport"
        /\ obs[p].applied
        /\ bookmarks # {}

NewAndEdited(m, q, f) ==
    Response("ChannelDifference", << m >>, << Update("UpdateEditMessage", m, << >>) >>, q, f)

\* C23: of a difference page, a message without a topic reference that is
\* not the root of a listed topic yields no bookmark, neither as a new
\* message nor as an edited one, and a message that comes both as new and as
\* edited is placed by both in the same topic or dropped by both.
C23_SameTopicRule ==
    [][\A p \in Threads, m \in Universe, q \in PtsValues, f \in BOOLEAN :
          SyncFromDifferencePage(p, NewAndEdited(m, q, f), "ok")
              => LET new_bookmarks == loc'[p].new_bookmarks
                 IN /\ (m.reply_to = 0
                         /\ \A i \in DOMAIN loc[p].topics : loc[p].topics[i].id # m.id)
                          => new_bookmarks = << >>
                    /\ \/ new_bookmarks = << >>
                       \/ /\ Len(new_bookmarks) = 2
                          /\ new_bookmarks[1].topic_id = new_bookmarks[2].topic_id]_vars

\* C24: no step removes a topic id from the topics table (whatever the topic
\* listing answers), the table never holds two rows of one id, and the
\* upsert of a listed topic whose id is in the table already can be done and
\* leaves exactly the listed row for that id.
C24_TopicsOnlyGrow ==
    /\ [][/\ { t.id : t \in topics } \subseteq { t.id : t \in topics' }
          /\ \A a, b \in topics' : a.id = b.id => a = b]_vars
    /\ [][\A p \in Threads :
            RunSyncUpsertTopic(p, FALSE)
                => LET topic == loc[p].topics[loc[p].k]
                   IN { t \in topics' : t.id = topic.id } = { topic }]_vars
    /\ [](\A p \in Threads :
            (pc[p] = "rs_topics" /\ loc[p].k <= Len(loc[p].topics)
             /\ \E t \in topics : t.id = loc[p].topics[loc[p].k].id)
                => ENABLED RunSyncUpsertTopic(p, FALSE))

\* C24's case: topic 1 is in the table and was not in the last listing, and
\* topic 2 was upserted again with another title.
C24_Witness ==
    /\ topics = { Topic(1, "General"), Topic(2, "Reads") }
    /\ \E p \in Threads : pc[p] = "rs_topics" /\ loc[p].k > Len(loc[p].topics)

\* The ids of the content messages among `content` that are in listed topics.
ContentIds(content, listing) ==
    { m.id : m \in { x \in content :
                      ~x.service /\ \E i \in DOMAIN listing : listing[i].id = x.thread } }

\* C25: when a run has done its full-sync pass and stored the position the
\* channel answered, the mirror holds exactly the content messages the
\* channel held at that position: all those created at or before it and not
\* deleted at or before it.
C25_NoChangeSkipped ==
    \A p \in Threads :
        (pc[p] = "rs_finally" /\ obs[p].rebased /\ loc[p].ret = "True")
            => { b.id : b \in bookmarks }
                 = ContentIds(content_at(remote, obs[p].pos), loc[p].topics)

IdTopic(table) == { [id |-> b.id, topic_id |-> b.topic_id] : b \in table }

\* C27: when a differential run that started from a mirror equal to the
\* channel's content at the cursor reports success, the mirror holds the ids
\* and topic_ids that a successful full sync of every topic, run in its
\* place against the channel as it is now, would have left.
C27_DiffEqualsFull ==
    \A p \in Threads :
        (pc[p] = "rs_branch" /\ loc[p].diff_success)
            => IdTopic(bookmarks)
                 = IdTopic(full_sync_all(
                              full_sync_all({}, remote.base, RemoteTopics, files),
                              remote.content, RemoteTopics, files))

=============================================================================
